---- MODULE Spec2Model ----
(***************************************************************************)
(* IterativeRobot.startCompetition (wpilib/iterativerobot.py): the main    *)
(* loop that picks the robot mode, runs the mode's Init handler on entry   *)
(* and its Periodic handler on every new driver-station packet.            *)
(*                                                                         *)
(* The program counter pc follows the statements of startCompetition; the  *)
(* four mode branches (lines 80-94, 95-108, 109-125, 126-139) have the     *)
(* same shape and are modelled by actions parameterised by the variable    *)
(* mode, the branch taken in the current iteration.  The tracing locals    *)
(* (loopCount, marker, did*Periodic, lines 68-74, 94, 108, 125, 139) are   *)
(* written and never read, so they carry no state here.                    *)
(***************************************************************************)
EXTENDS Integers, Sequences, FiniteSets, TLC

\* ---------------------------------------------------------------- bounds
\* Number of loop iterations explored.
MaxIter == 4

\* ------------------------------------------------------------- vocabulary
Modes == {"disabled", "test", "autonomous", "teleop"}

InitOf == [disabled   |-> "disabledInit",
           test       |-> "testInit",
           autonomous |-> "autonomousInit",
           teleop     |-> "teleopInit"]

\* A dispatch table that sends every mode to teleopPeriodic.
PeriodicOf_alwaysTeleop == [m \in {"disabled", "test", "autonomous", "teleop"} |-> "teleopPeriodic"]

PeriodicOf == [disabled   |-> "disabledPeriodic",
               test       |-> "testPeriodic",
               autonomous |-> "autonomousPeriodic",
               teleop     |-> "teleopPeriodic"]

\* Observe calls that all name teleop, whatever the branch.
ObserveOf_alwaysTeleop == [m \in {"disabled", "test", "autonomous", "teleop"} |-> "ObserveUserProgramTeleop"]

ObserveOf == [disabled   |-> "ObserveUserProgramDisabled",
              test       |-> "ObserveUserProgramTest",
              autonomous |-> "ObserveUserProgramAutonomous",
              teleop     |-> "ObserveUserProgramTeleop"]

InitHandlers == {InitOf[m] : m \in Modes}
PeriodicHandlers == {PeriodicOf[m] : m \in Modes}
Handlers == InitHandlers \cup PeriodicHandlers \cup {"robotInit"}

\* A disabled branch whose last reset clears its own flag again.
ResetOrder_clearsSelf ==
    [disabled   |-> <<"autonomous", "teleop", "disabled">>,
     test       |-> <<"autonomous", "teleop", "disabled">>,
     autonomous |-> <<"test", "teleop", "disabled">>,
     teleop     |-> <<"test", "autonomous", "disabled">>]

\* A reset list that forgets testInitialized in the disabled branch.
ResetOrder_forgetsTest ==
    [disabled   |-> <<"autonomous", "teleop", "teleop">>,
     test       |-> <<"autonomous", "teleop", "disabled">>,
     autonomous |-> <<"test", "teleop", "disabled">>,
     teleop     |-> <<"test", "autonomous", "disabled">>]

\* The order in which each branch clears the flags of the other modes
\* (lines 88-90, 102-104, 119-121, 133-135).
ResetOrder == [disabled   |-> <<"autonomous", "teleop", "test">>,
               test       |-> <<"autonomous", "teleop", "disabled">>,
               autonomous |-> <<"test", "teleop", "disabled">>,
               teleop     |-> <<"test", "autonomous", "disabled">>]

\* Which handlers a robot program overrides.  The others are the defaults of
\* lines 151-239.  Only overridden handlers hold user code that can raise.
HandlerConfigs == { {},
                    {"disabledInit", "autonomousInit", "teleopPeriodic"},
                    Handlers }

VARIABLES
    pc,          \* position in startCompetition, or "faulted" once an exception left it
    mode,        \* branch taken in the current iteration, "none" while undetermined
    k,           \* index of the next flag to clear while in the reset lines
    initialized, \* the four flags disabledInitialized ... testInitialized
    held,        \* control words the driver station held at the queries that
                 \* decide this iteration's branch, kept until the branch is entered
    overridden,  \* handlers supplied by the subclass
    firstRun,    \* default periodic functions carrying the firstRun attribute
    printed,     \* number of "Overload me" lines each default handler has printed
    boot,        \* calls made before the loop (lines 62-65)
    trace,       \* calls made so far in the current iteration
    answers,     \* predicate results obtained so far in the current iteration
    entryFlags,  \* the flags as they were when the current iteration began
    log,         \* one record per completed iteration
    fault        \* the call whose exception ended the loop, "none" otherwise

vars == <<pc, mode, k, initialized, held, overridden, firstRun, printed,
          boot, trace, answers, entryFlags, log, fault>>

DSStates == [isDisabled : BOOLEAN, isTest : BOOLEAN, isAutonomous : BOOLEAN]

\* __init__ (lines 46-58) followed by entry into startCompetition.
Init ==
    /\ pc = "HALReport"
    /\ mode = "none"
    /\ k = 0
    /\ initialized = [m \in Modes |-> FALSE]
    /\ held = {}
    /\ overridden \in HandlerConfigs
    /\ firstRun = {}
    /\ printed = [h \in Handlers |-> 0]
    /\ boot = <<>>
    /\ trace = <<>>
    /\ answers = <<>>
    /\ entryFlags = [m \in Modes |-> FALSE]
    /\ log = <<>>
    /\ fault = "none"

\* An exception that is swallowed: the loop carries on to its wait.
Raise_swallowed(call) ==
    /\ pc' = "wait"
    /\ fault' = call

\* An exception propagates out of startCompetition: nothing catches it.
Raise(call) ==
    /\ pc' = "faulted"
    /\ fault' = call

\* ------------------------------------------------------ default handlers
\* A Periodic default without the firstRun latch.
DefaultPrints_always(h) == TRUE

\* Body of a default handler (lines 151-239).  robotInit and the Init
\* handlers print on every call; the Periodic handlers print only while the
\* function object has no firstRun attribute, and then set it.
DefaultPrints(h) ==
    IF h \in PeriodicHandlers THEN h \notin firstRun ELSE TRUE

RunHandler(h) ==
    IF h \in overridden
    THEN UNCHANGED <<firstRun, printed>>
    ELSE /\ printed' = [printed EXCEPT ![h] = IF DefaultPrints(h) THEN @ + 1 ELSE @]
         /\ firstRun' = IF h \in PeriodicHandlers THEN firstRun \cup {h} ELSE firstRun

\* A body that runs once and falls out of the function.
LoopHead_once == "done"

\* A loop whose head sits above the call of robotInit.
LoopHead_restart == "robotInit"

\* "while True:" (line 78): where control goes after line 65 and line 140.
LoopHead == "isDisabled"

\* ------------------------------------------------- before the loop, 62-65
HALReport ==
    /\ pc = "HALReport"
    /\ boot' = Append(boot, "HALReport")
    /\ pc' = "robotInit"
    /\ UNCHANGED <<mode, k, initialized, held, overridden, firstRun, printed,
                   trace, answers, entryFlags, log, fault>>

HALReportRaises ==
    /\ pc = "HALReport"
    /\ boot' = Append(boot, "HALReport")
    /\ Raise("HALReport")
    /\ UNCHANGED <<mode, k, initialized, held, overridden, firstRun, printed,
                   trace, answers, entryFlags, log>>

RobotInit ==
    /\ pc = "robotInit"
    /\ boot' = Append(boot, "robotInit")
    /\ RunHandler("robotInit")
    /\ pc' = LoopHead
    /\ UNCHANGED <<mode, k, initialized, held, overridden,
                   trace, answers, entryFlags, log, fault>>

RobotInitRaises ==
    /\ pc = "robotInit"
    /\ "robotInit" \in overridden
    /\ boot' = Append(boot, "robotInit")
    /\ Raise("robotInit")
    /\ UNCHANGED <<mode, k, initialized, held, overridden, firstRun, printed,
                   trace, answers, entryFlags, log>>

\* ------------------------------------------ mode determination, 80/95/109
\* An if/elif chain that tests isTest's branch ahead of isDisabled's.
AfterPredicate_swapped(q, b) ==
    IF q = "isDisabled" THEN (IF b THEN <<"check", "test">> ELSE <<"isTest", "none">>)
    ELSE IF q = "isTest" THEN (IF b THEN <<"check", "disabled">> ELSE <<"isAutonomous", "none">>)
    ELSE (IF b THEN <<"check", "autonomous">> ELSE <<"check", "teleop">>)

\* Where the if/elif chain goes after a predicate answered b.
AfterPredicate(q, b) ==
    IF q = "isDisabled" THEN (IF b THEN <<"check", "disabled">> ELSE <<"isTest", "none">>)
    ELSE IF q = "isTest" THEN (IF b THEN <<"check", "test">> ELSE <<"isAutonomous", "none">>)
    ELSE (IF b THEN <<"check", "autonomous">> ELSE <<"check", "teleop">>)

\* self.isDisabled() / self.isTest() / self.isAutonomous().  The driver
\* station rewrites its control word on its own thread, so each question is
\* answered from whatever control word d is in place at that instant.
Predicate(q) ==
    /\ pc = q
    /\ Len(log) < MaxIter
    /\ \E d \in DSStates :
          /\ held' = held \cup {d}
          /\ answers' = Append(answers, <<q, d[q]>>)
          /\ pc' = AfterPredicate(q, d[q])[1]
          /\ mode' = AfterPredicate(q, d[q])[2]
    /\ UNCHANGED <<k, initialized, overridden, firstRun, printed,
                   boot, trace, entryFlags, log, fault>>

\* A query that is asked again after it raised.
PredicateRaises_retry(q) ==
    /\ pc = q
    /\ Len(log) < MaxIter
    /\ pc' = q
    /\ fault' = q
    /\ UNCHANGED <<mode, k, initialized, held, overridden, firstRun, printed,
                   boot, trace, answers, entryFlags, log>>

PredicateRaises(q) ==
    /\ pc = q
    /\ Len(log) < MaxIter
    /\ Raise(q)
    /\ UNCHANGED <<mode, k, initialized, held, overridden, firstRun, printed,
                   boot, trace, answers, entryFlags, log>>

IsDisabled == Predicate("isDisabled")
IsTest == Predicate("isTest")
IsAutonomous == Predicate("isAutonomous")
IsDisabledRaises == PredicateRaises("isDisabled")
IsTestRaises == PredicateRaises("isTest")
IsAutonomousRaises == PredicateRaises("isAutonomous")

\* ---------------------------------------- mode entry, 83-90 and its copies
\* A test of the flag that always finds it clear.
NeedsInit_always(m) == TRUE

\* "if not self.<mode>Initialized"; the branch is entered here.
NeedsInit(m) == ~initialized[m]

\* A branch that runs its entry block on every iteration.
AfterCheck_always(need) == "init"

\* A branch that never runs its entry block.
AfterCheck_skip(need) == "ready"

\* Lines 83-90 are entered when the flag is clear, else control is at line 91.
AfterCheck(need) == IF need THEN "init" ELSE "ready"

CheckInitialized ==
    /\ pc = "check"
    /\ pc' = AfterCheck(NeedsInit(mode))
    /\ held' = {}
    /\ UNCHANGED <<mode, k, initialized, overridden, firstRun, printed,
                   boot, trace, answers, entryFlags, log, fault>>

\* self.<mode>Init()
CallInit ==
    /\ pc = "init"
    /\ trace' = Append(trace, InitOf[mode])
    /\ RunHandler(InitOf[mode])
    /\ pc' = "set"
    /\ UNCHANGED <<mode, k, initialized, held, overridden,
                   boot, answers, entryFlags, log, fault>>

CallInitRaises ==
    /\ pc = "init"
    /\ InitOf[mode] \in overridden
    /\ trace' = Append(trace, InitOf[mode])
    /\ Raise(InitOf[mode])
    /\ UNCHANGED <<mode, k, initialized, held, overridden, firstRun, printed,
                   boot, answers, entryFlags, log>>

\* The value line 86 (101, 118, 132) stores in the mode's own flag.
FlagAfterInit_false == FALSE

FlagAfterInit == TRUE

\* self.<mode>Initialized = True
SetInitialized ==
    /\ pc = "set"
    /\ initialized' = [initialized EXCEPT ![mode] = FlagAfterInit]
    /\ pc' = "reset"
    /\ k' = 1
    /\ UNCHANGED <<mode, held, overridden, firstRun, printed,
                   boot, trace, answers, entryFlags, log, fault>>

\* the three assignments clearing the other modes' flags, one per step
ResetOther ==
    /\ pc = "reset"
    /\ initialized' = [initialized EXCEPT ![ResetOrder[mode][k]] = FALSE]
    /\ IF k < Len(ResetOrder[mode])
       THEN k' = k + 1 /\ pc' = "reset"
       ELSE k' = 0 /\ pc' = "ready"
    /\ UNCHANGED <<mode, held, overridden, firstRun, printed,
                   boot, trace, answers, entryFlags, log, fault>>

\* ------------------------------------- periodic dispatch, 91-93 and copies
\* A branch that goes back to the top of the loop without waiting when
\* there is no new packet.
AfterReady_nowait(b) == IF b THEN "observe" ELSE "isDisabled"

\* A branch that polls nextPeriodReady until it answers TRUE.
AfterReady_requery(b) == IF b THEN "observe" ELSE "ready"

\* A dispatch that ignores the answer of nextPeriodReady.
AfterReady_always(b) == "observe"

\* "if self.nextPeriodReady()": where control goes on the answer b.
AfterReady(b) == IF b THEN "observe" ELSE "wait"

\* nextPeriodReady (lines 142-147) returns ds.isNewControlData(); whether a
\* packet has arrived is the driver station's business.
NextPeriodReady ==
    /\ pc = "ready"
    /\ \E b \in BOOLEAN :
          /\ answers' = Append(answers, <<"nextPeriodReady", b>>)
          /\ pc' = AfterReady(b)
    /\ UNCHANGED <<mode, k, initialized, held, overridden, firstRun, printed,
                   boot, trace, entryFlags, log, fault>>

NextPeriodReadyRaises ==
    /\ pc = "ready"
    /\ Raise("nextPeriodReady")
    /\ UNCHANGED <<mode, k, initialized, held, overridden, firstRun, printed,
                   boot, trace, answers, entryFlags, log>>

\* hal.HALNetworkCommunicationObserveUserProgram<Mode>()
Observe ==
    /\ pc = "observe"
    /\ trace' = Append(trace, ObserveOf[mode])
    /\ pc' = "periodic"
    /\ UNCHANGED <<mode, k, initialized, held, overridden, firstRun, printed,
                   boot, answers, entryFlags, log, fault>>

ObserveRaises ==
    /\ pc = "observe"
    /\ trace' = Append(trace, ObserveOf[mode])
    /\ Raise(ObserveOf[mode])
    /\ UNCHANGED <<mode, k, initialized, held, overridden, firstRun, printed,
                   boot, answers, entryFlags, log>>

\* self.<mode>Periodic()
CallPeriodic ==
    /\ pc = "periodic"
    /\ trace' = Append(trace, PeriodicOf[mode])
    /\ RunHandler(PeriodicOf[mode])
    /\ pc' = "wait"
    /\ UNCHANGED <<mode, k, initialized, held, overridden,
                   boot, answers, entryFlags, log, fault>>

CallPeriodicRaises ==
    /\ pc = "periodic"
    /\ PeriodicOf[mode] \in overridden
    /\ trace' = Append(trace, PeriodicOf[mode])
    /\ Raise(PeriodicOf[mode])
    /\ UNCHANGED <<mode, k, initialized, held, overridden, firstRun, printed,
                   boot, answers, entryFlags, log>>

\* ------------------------------------------------------ end of iteration
\* Whether the iteration asked nextPeriodReady and was told TRUE.
Ticked(ans) == \E i \in 1..Len(ans) : ans[i] = <<"nextPeriodReady", TRUE>>

\* self.ds.waitForData() (line 140), then back to the top of the loop.
WaitForData ==
    /\ pc = "wait"
    /\ log' = Append(log, [mode    |-> mode,
                           tick    |-> Ticked(answers),
                           entry   |-> entryFlags,
                           answers |-> answers,
                           calls   |-> Append(trace, "waitForData")])
    /\ trace' = <<>>
    /\ answers' = <<>>
    /\ mode' = "none"
    /\ entryFlags' = initialized
    /\ pc' = LoopHead
    /\ UNCHANGED <<k, initialized, held, overridden, firstRun, printed, boot, fault>>

WaitForDataRaises ==
    /\ pc = "wait"
    /\ trace' = Append(trace, "waitForData")
    /\ Raise("waitForData")
    /\ UNCHANGED <<mode, k, initialized, held, overridden, firstRun, printed,
                   boot, answers, entryFlags, log>>

Next ==
    \/ HALReport \/ HALReportRaises
    \/ RobotInit \/ RobotInitRaises
    \/ IsDisabled \/ IsTest \/ IsAutonomous
    \/ IsDisabledRaises \/ IsTestRaises \/ IsAutonomousRaises
    \/ CheckInitialized
    \/ CallInit \/ CallInitRaises
    \/ SetInitialized
    \/ ResetOther
    \/ NextPeriodReady \/ NextPeriodReadyRaises
    \/ Observe \/ ObserveRaises
    \/ CallPeriodic \/ CallPeriodicRaises
    \/ WaitForData \/ WaitForDataRaises

Spec == Init /\ [][Next]_vars

\* The steps in which the call at hand returns instead of raising.
Returns ==
    \/ HALReport \/ RobotInit
    \/ IsDisabled \/ IsTest \/ IsAutonomous
    \/ CheckInitialized \/ CallInit \/ SetInitialized \/ ResetOther
    \/ NextPeriodReady \/ Observe \/ CallPeriodic \/ WaitForData

\* The interpreter keeps executing the one thread of startCompetition:
\* a statement whose call returns is eventually followed by the next one.
FairSpec == Spec /\ WF_vars(Returns)

\* ======================================================== properties

Count(x, s) == Cardinality({i \in 1..Len(s) : s[i] = x})

Pos(x, s) == CHOOSE i \in 1..Len(s) : s[i] = x

FlagsSet == {m \in Modes : initialized[m]}

BootDone == <<"HALReport", "robotInit">>

TypeOK ==
    /\ pc \in {"HALReport", "robotInit", "isDisabled", "isTest", "isAutonomous",
               "check", "init", "set", "reset", "ready", "observe", "periodic",
               "wait", "faulted"}
    /\ mode \in Modes \cup {"none"}
    /\ initialized \in [Modes -> BOOLEAN]
    /\ Len(log) <= MaxIter

\* ------------------------------------------------------------------- C1
\* Iteration i opens a maximal run of its mode.
FirstOfRun(i) == i = 1 \/ log[i - 1].mode # log[i].mode

C2_AtMostOneInitialized ==
    pc = "isDisabled" => Cardinality(FlagsSet) <= 1

\* The top of the loop after a change of mode, with a flag set.
C2_Witness ==
    /\ pc = "isDisabled"
    /\ Len(log) >= 2
    /\ log[1].mode # log[2].mode
    /\ Cardinality(FlagsSet) = 1

\* ------------------------------------------------------------------- C3
PeriodicCalled(s) == \E m \in Modes : Count(PeriodicOf[m], s) > 0

AnsweredNo(ans) == \E i \in 1..Len(ans) : ans[i] = <<"nextPeriodReady", FALSE>>

\* C3: a Periodic handler is called in an iteration only if nextPeriodReady
\* answered TRUE in that iteration; an iteration in which it answered FALSE
\* calls no Periodic handler of any mode.
C3_TickGating ==
    /\ \A i \in 1..Len(log) :
          /\ PeriodicCalled(log[i].calls) => Ticked(log[i].answers)
          /\ AnsweredNo(log[i].answers) => ~PeriodicCalled(log[i].calls)
    /\ (PeriodicCalled(trace) \/ pc = "periodic") => Ticked(answers)
    /\ AnsweredNo(answers) => ~PeriodicCalled(trace) /\ pc # "periodic"

\* One iteration that dispatched on a tick and one that had no tick.
C3_Witness ==
    \E i, j \in 1..Len(log) :
        /\ log[i].tick /\ PeriodicCalled(log[i].calls)
        /\ ~log[j].tick /\ ~PeriodicCalled(log[j].calls)

\* ------------------------------------------------------------------- C4
\* C4: an iteration that finds its mode's flag clear and is told there is a
\* new tick calls the mode's Init handler and then its Periodic handler,
\* once each and in that order; whenever the Periodic handler is about to
\* be called, or has been called, the mode's flag is already true and the
\* Init handler of an iteration that began with the flag clear has returned.
C4_InitBeforeTick ==
    /\ \A i \in 1..Len(log) :
          (~log[i].entry[log[i].mode] /\ log[i].tick) =>
              LET c == log[i].calls
                  m == log[i].mode
              IN  /\ Count(InitOf[m], c) = 1
                  /\ Count(PeriodicOf[m], c) = 1
                  /\ Pos(InitOf[m], c) < Pos(PeriodicOf[m], c)
    /\ (pc = "periodic" \/ PeriodicCalled(trace)) =>
          /\ initialized[mode]
          /\ ~entryFlags[mode] =>
                /\ Count(InitOf[mode], trace) = 1
                /\ Pos(InitOf[mode], trace) = 1

\* An iteration that entered a mode and dispatched a tick.
C4_Witness ==
    \E i \in 1..Len(log) :
        /\ ~log[i].entry[log[i].mode]
        /\ log[i].tick
        /\ i > 1

\* ------------------------------------------------------------------- C5
\* The precedence the claim states: disabled, else test, else autonomous,
\* else teleop.
ExternalMode(d) ==
    IF d.isDisabled THEN "disabled"
    ELSE IF d.isTest THEN "test"
    ELSE IF d.isAutonomous THEN "autonomous"
    ELSE "teleop"

Answered(q, b) == \E i \in 1..Len(answers) : answers[i] = <<q, b>>

\* The branch the answers obtained in this iteration call for.
BranchOfAnswers ==
    IF Answered("isDisabled", TRUE) THEN "disabled"
    ELSE IF Answered("isTest", TRUE) THEN "test"
    ELSE IF Answered("isAutonomous", TRUE) THEN "autonomous"
    ELSE "teleop"

OwnCalls(m) == {InitOf[m], ObserveOf[m], PeriodicOf[m], "waitForData"}

\* C5: for every combination of the three predicate values, the branch
\* taken is disabled if isDisabled is true, else test if isTest is true,
\* else autonomous if isAutonomous is true, else teleop (both for the
\* values the predicates returned and, when the control word stayed the
\* same through the queries, for that control word), and an iteration calls
\* handlers of its own mode only.
C5_Precedence ==
    /\ pc = "check" =>
          /\ mode = BranchOfAnswers
          /\ Cardinality(held) = 1 => \A d \in held : mode = ExternalMode(d)
    /\ mode = "none" => trace = <<>>
    /\ mode # "none" => \A i \in 1..Len(trace) : trace[i] \in OwnCalls(mode)
    /\ \A i \in 1..Len(log) : \A j \in 1..Len(log[i].calls) :
          log[i].calls[j] \in OwnCalls(log[i].mode)

\* All three predicates true at once: the disabled branch is taken.
C5_Witness ==
    /\ pc = "check"
    /\ held = {[isDisabled |-> TRUE, isTest |-> TRUE, isAutonomous |-> TRUE]}
    /\ mode = "disabled"

\* ------------------------------------------------------------------- C6
\* C6: when an Init or Periodic handler raises, the loop ends there: the
\* raising call is the last call made, waitForData is not called in that
\* iteration, and the flags stay as the raise found them.  A raising Init
\* leaves every flag as it was when the iteration began, its own mode's flag
\* false; a raising Periodic leaves the mode's flag as the only one set.
C6_FailStop ==
    fault \in InitHandlers \cup PeriodicHandlers =>
        /\ pc = "faulted"
        /\ trace # <<>>
        /\ trace[Len(trace)] = fault
        /\ Count("waitForData", trace) = 0
        /\ fault \in InitHandlers =>
              /\ fault = InitOf[mode]
              /\ Count(fault, trace) = 1
              /\ initialized = entryFlags
              /\ ~initialized[mode]
        /\ fault \in PeriodicHandlers =>
              /\ fault = PeriodicOf[mode]
              /\ initialized = [m \in Modes |-> m = mode]

\* An Init handler raised on entry to a mode while another mode's flag was set.
C6_Witness ==
    /\ fault \in InitHandlers
    /\ Len(log) >= 1
    /\ Cardinality(FlagsSet) = 1

\* ------------------------------------------------------------------- C7
TelemetryCalls == {"HALReport"} \cup {ObserveOf[m] : m \in Modes}

\* C7: an exception raised by the usage report or by an observe
\* notification never ends the loop.
C7_TelemetryFaultSuppressed ==
    ~(pc = "faulted" /\ fault \in TelemetryCalls)

\* ------------------------------------------------------------------- C8
RECURSIVE CallsInLog(_, _)
CallsInLog(h, n) ==
    IF n = 0 THEN 0 ELSE Count(h, log[n].calls) + CallsInLog(h, n - 1)

\* How many times handler h has been called since the loop started.
Invocations(h) == CallsInLog(h, Len(log)) + Count(h, trace)

IsModeHandler(c) == c \in InitHandlers \cup PeriodicHandlers

ModeHandlerCalls(i) == SelectSeq(log[i].calls, IsModeHandler)

\* Four iterations reporting disabled, disabled, autonomous, autonomous
\* with a new tick on the second and fourth only.
ScenarioA ==
    /\ Len(log) = 4
    /\ <<log[1].mode, log[2].mode, log[3].mode, log[4].mode>>
          = <<"disabled", "disabled", "autonomous", "autonomous">>
    /\ <<log[1].tick, log[2].tick, log[3].tick, log[4].tick>>
          = <<FALSE, TRUE, FALSE, TRUE>>

\* C9: in Scenario A the Init and Periodic calls of the four iterations are
\* disabledInit, disabledPeriodic, autonomousInit, autonomousPeriodic, one
\* per iteration in that order, and nothing else.
C9_ScenarioA ==
    ScenarioA =>
        ModeHandlerCalls(1) \o ModeHandlerCalls(2)
              \o ModeHandlerCalls(3) \o ModeHandlerCalls(4)
           = <<"disabledInit", "disabledPeriodic",
               "autonomousInit", "autonomousPeriodic">>
        /\ \A i \in 1..4 : Len(ModeHandlerCalls(i)) = 1

C9_Witness == ScenarioA /\ pc = "isDisabled"

\* ------------------------------------------------------------------ C10
\* C10: the usage report and then robotInit are each called once, before
\* the first predicate query and before any handler of the loop, and are
\* never called again.
C10_BootOnce ==
    /\ boot \in {<<>>, <<"HALReport">>, BootDone}
    /\ pc \notin {"HALReport", "robotInit", "faulted"} => boot = BootDone
    /\ (answers # <<>> \/ trace # <<>> \/ log # <<>>) => boot = BootDone
    /\ \A i \in 1..Len(log) :
          Count("HALReport", log[i].calls) + Count("robotInit", log[i].calls) = 0

\* Two iterations later the two calls are still the only ones before the loop.
C10_Witness ==
    /\ Len(log) >= 2
    /\ boot = BootDone
    /\ pc = "check"

\* ------------------------------------------------------------------ C11
ObserveCalled(s) == \E m \in Modes : Count(ObserveOf[m], s) > 0

\* C11: an iteration that was told there is a new tick makes exactly one
\* observe call, the one naming the mode of its branch, directly before that
\* mode's Periodic call; an iteration without a new tick makes none.
C11_ObserveOncePerTick ==
    /\ \A i \in 1..Len(log) :
          LET c == log[i].calls
              m == log[i].mode
          IN  /\ \A n \in Modes \ {m} : Count(ObserveOf[n], c) = 0
              /\ log[i].tick =>
                    /\ Count(ObserveOf[m], c) = 1
                    /\ Count(PeriodicOf[m], c) = 1
                    /\ Pos(PeriodicOf[m], c) = Pos(ObserveOf[m], c) + 1
              /\ ~log[i].tick => Count(ObserveOf[m], c) = 0
    /\ ObserveCalled(trace) =>
          /\ Ticked(answers)
          /\ Count(ObserveOf[mode], trace) = 1
          /\ \A n \in Modes \ {mode} : Count(ObserveOf[n], trace) = 0
    /\ pc = "periodic" => trace[Len(trace)] = ObserveOf[mode]
    /\ PeriodicCalled(trace) =>
          Pos(PeriodicOf[mode], trace) = Pos(ObserveOf[mode], trace) + 1

\* Ticks processed in two different modes, and an iteration without one.
C11_Witness ==
    \E i, j, n \in 1..Len(log) :
        /\ log[i].tick /\ log[j].tick /\ log[i].mode # log[j].mode
        /\ ~log[n].tick

\* ------------------------------------------------------------------ C12
\* C12: as long as no call raises, the loop neither returns nor stops: it
\* goes on to complete every iteration the exploration allows.
C12_LoopNeverEnds ==
    <>(Len(log) = MaxIter \/ fault # "none")

\* All the iterations the exploration allows have completed without a fault.
C12_Witness ==
    /\ Len(log) = MaxIter
    /\ fault = "none"

\* ------------------------------------------------------------------ C13
TickSourceCalls ==
    {"isDisabled", "isTest", "isAutonomous", "nextPeriodReady", "waitForData"}

\* C13: when a driver-station query raises, the loop ends there and the
\* query is not asked again: no handler is called after it, the iteration is
\* not completed, and the flags stay as the raise found them.  A raising
\* mode predicate finds the iteration without any call and the flags as the
\* iteration began; a raising nextPeriodReady finds no observe or Periodic
\* call; a raising waitForData is the last call of its iteration.
C13_QueryFaultIsFatal ==
    fault \in TickSourceCalls =>
        /\ pc = "faulted"
        /\ fault \in {"isDisabled", "isTest", "isAutonomous"} =>
              /\ trace = <<>>
              /\ mode = "none"
              /\ initialized = entryFlags
              /\ ~Answered(fault, TRUE) /\ ~Answered(fault, FALSE)
        /\ fault = "nextPeriodReady" =>
              /\ ~ObserveCalled(trace) /\ ~PeriodicCalled(trace)
              /\ Count("waitForData", trace) = 0
              /\ initialized = [m \in Modes |-> m = mode]
              /\ ~Answered(fault, TRUE) /\ ~Answered(fault, FALSE)
        /\ fault = "waitForData" =>
              /\ trace[Len(trace)] = "waitForData"
              /\ Count("waitForData", trace) = 1
              /\ initialized = [m \in Modes |-> m = mode]

\* isTest raised in the second iteration or later, after isDisabled had
\* answered and with a flag set by an earlier iteration.
C13_Witness ==
    /\ fault = "isTest"
    /\ Len(log) >= 1
    /\ Cardinality(FlagsSet) = 1

\* ------------------------------------------------------------------ C14
\* The flags as iteration i left them.
FlagsAfter(i) == IF i = Len(log) THEN entryFlags ELSE log[i + 1].entry

OnlyFlag(m) == [n \in Modes |-> n = m]

AnyInitCalled(s) == \E m \in Modes : Count(InitOf[m], s) > 0

\* C15: an iteration that finds the flag of its mode already true calls no
\* Init handler and leaves all four flags as it found them, with or without
\* a new tick.
C15_NoChurnWhenInitialized ==
    /\ \A i \in 1..Len(log) :
          log[i].entry[log[i].mode] =>
              /\ ~AnyInitCalled(log[i].calls)
              /\ FlagsAfter(i) = log[i].entry
    /\ (mode # "none" /\ entryFlags[mode]) =>
          /\ ~AnyInitCalled(trace)
          /\ initialized = entryFlags
          /\ pc \notin {"init", "set", "reset"}

\* Iterations that stayed in their mode, one with a tick and one without.
C15_Witness ==
    \E i, j \in 1..Len(log) :
        /\ log[i].entry[log[i].mode] /\ log[i].tick
        /\ log[j].entry[log[j].mode] /\ ~log[j].tick

\* ------------------------------------------------------------------ C16
\* Iterations a..b all took the branch of mode m with a new tick.
TickRun(a, b, m) ==
    \A i \in a..b : log[i].mode = m /\ log[i].tick

RECURSIVE CallsInRange(_, _, _)
CallsInRange(h, a, b) ==
    IF a > b THEN 0 ELSE Count(h, log[b].calls) + CallsInRange(h, a, b - 1)

\* C16: an iteration that was told there is a new tick calls the Periodic
\* handler of its mode exactly once and no other Periodic handler; so a run
\* of iterations of one mode that opens the mode, each with a tick, calls
\* the Init handler once and the Periodic handler once per iteration.
C16_OneTickOneDispatch ==
    /\ \A i \in 1..Len(log) :
          /\ log[i].tick => Count(PeriodicOf[log[i].mode], log[i].calls) = 1
          /\ \A n \in Modes \ {log[i].mode} :
                Count(PeriodicOf[n], log[i].calls) = 0
    /\ \A m \in Modes : Count(PeriodicOf[m], trace)
                           <= IF m = mode /\ Ticked(answers) THEN 1 ELSE 0
    /\ \A a \in 1..Len(log) : \A b \in a..Len(log) :
          (FirstOfRun(a) /\ TickRun(a, b, log[a].mode)) =>
              /\ CallsInRange(InitOf[log[a].mode], a, b) = 1
              /\ CallsInRange(PeriodicOf[log[a].mode], a, b) = b - a + 1

\* Scenario B: teleop on three consecutive iterations, a tick on each.
C16_Witness ==
    /\ Len(log) = 3
    /\ TickRun(1, 3, "teleop")

\* ------------------------------------------------------------------ C17
ModePredicates == {"isDisabled", "isTest", "isAutonomous"}

\* How many times this list of answers holds an answer of query q.
NumAsked(q, ans) == Cardinality({i \in 1..Len(ans) : ans[i][1] = q})

\* The calls of a complete iteration of mode m that began with the flags e
\* and was told tick: Init if needed, observe and Periodic if there was a
\* tick, and the wait.
IterationCalls(m, e, tick) ==
    (IF e[m] THEN <<>> ELSE <<InitOf[m]>>)
       \o (IF tick THEN <<ObserveOf[m], PeriodicOf[m]>> ELSE <<>>)
       \o <<"waitForData">>

\* C17: every iteration determines the mode, then runs Init if the flag is
\* clear, then asks for a tick and dispatches if there is one, then calls
\* waitForData, exactly once and last, on every branch; the next iteration's
\* first mode query comes only after that wait has returned.
C17_StepOrder ==
    /\ \A i \in 1..Len(log) :
          /\ log[i].calls = IterationCalls(log[i].mode, log[i].entry, log[i].tick)
          /\ log[i].answers[Len(log[i].answers)][1] = "nextPeriodReady"
          /\ \A j \in 1..(Len(log[i].answers) - 1) :
                log[i].answers[j][1] \in ModePredicates
    /\ pc \in ModePredicates \cup {"check"} =>
          /\ trace = <<>>
          /\ NumAsked("nextPeriodReady", answers) = 0
    /\ pc = "isDisabled" => answers = <<>>
    /\ pc \in {"init", "set", "reset"} =>
          /\ NumAsked("nextPeriodReady", answers) = 0
          /\ trace \in {<<>>, <<InitOf[mode]>>}
    /\ NumAsked("nextPeriodReady", answers) > 0 =>
          /\ initialized = OnlyFlag(mode)
          /\ ~entryFlags[mode] => trace[1] = InitOf[mode]
    /\ Count("waitForData", trace) > 0 => fault = "waitForData"

\* Iterations of all four shapes: with and without Init, with and without
\* a tick.
C17_Witness ==
    \E a, b, c, d \in 1..Len(log) :
        /\ ~log[a].entry[log[a].mode] /\ log[a].tick
        /\ ~log[b].entry[log[b].mode] /\ ~log[b].tick
        /\ log[c].entry[log[c].mode] /\ log[c].tick
        /\ log[d].entry[log[d].mode] /\ ~log[d].tick

\* ------------------------------------------------------------------ C18
NumYes(ans) ==
    Cardinality({i \in 1..Len(ans) : ans[i] = <<"nextPeriodReady", TRUE>>})

\* C18: nextPeriodReady is asked at most once in an iteration, on every
\* branch (exactly once in an iteration that reaches the wait), and the
\* Periodic handler is called once for an answer TRUE and not at all
\* otherwise: one delivered tick gives one dispatch even if asking clears it.
C18_TickAskedOnce ==
    /\ \A i \in 1..Len(log) :
          /\ NumAsked("nextPeriodReady", log[i].answers) = 1
          /\ Count(PeriodicOf[log[i].mode], log[i].calls) = NumYes(log[i].answers)
    /\ NumAsked("nextPeriodReady", answers) <= 1
    /\ mode # "none" => Count(PeriodicOf[mode], trace) <= NumYes(answers)
    /\ pc \in {"observe", "periodic", "wait"} =>
          NumAsked("nextPeriodReady", answers) = 1

\* Every branch has completed an iteration, one of them with a tick.
C18_Witness ==
    /\ \A m \in Modes : \E i \in 1..Len(log) : log[i].mode = m
    /\ \E i \in 1..Len(log) : log[i].tick

\* ------------------------------------------------------------------ C19
\* C19: after every iteration that completes, exactly one flag is true, the
\* flag of the mode whose branch the iteration took; the four flags are all
\* false only while no iteration has completed.
C19_ExactlyOneAfterIteration ==
    /\ \A i \in 1..Len(log) : FlagsAfter(i) = OnlyFlag(log[i].mode)
    /\ (pc = "isDisabled" /\ Len(log) > 0)
          => initialized = OnlyFlag(log[Len(log)].mode)
    /\ FlagsSet = {} => Len(log) = 0

\* Three iterations in three different modes.
C19_Witness ==
    /\ Len(log) = 3
    /\ pc = "isDisabled"
    /\ Cardinality({log[1].mode, log[2].mode, log[3].mode}) = 3

\* ------------------------------------------------------------------ C20
\* C20: the branch an iteration takes is a mode the driver station was in at
\* the instant of at least one of the iteration's mode queries, also when
\* the control word changes between the queries.
C20_BranchWasHeld ==
    pc = "check" => mode \in {ExternalMode(d) : d \in held}

====
